---- MODULE Spec2Model ----
(***************************************************************************)
(* Document_Format_Validation.py: the format-fingerprint training and      *)
(* scoring engine of one Streamlit review session.                         *)
(*                                                                         *)
(* State: the session baseline (st.session_state.trained_un_combos), the   *)
(* two file-uploader widgets, the position of a running "Train Model"      *)
(* handler, and what the last script run computed and displayed.           *)
(*                                                                         *)
(* Numbers that are floats in the program are carried exactly:             *)
(*   - a span's font size is an integer number of 1/64 pt (every such      *)
(*     value is a double), rounded to tenths as Python's round(x, 1);      *)
(*   - the fraud score is computed as the program computes it, in IEEE     *)
(*     double arithmetic ((u / t) * 100, then round(., 2)), on bit         *)
(*     sequences, and held as an integer number of hundredths of a         *)
(*     percent;                                                            *)
(*   - ascender and descender are carried as the text Python prints for    *)
(*     them, which is all the program does with them;                      *)
(*   - the text of a span is the sequence of its Unicode code points.      *)
(***************************************************************************)
EXTENDS Integers, Sequences, FiniteSets, Bags, TLC

(***************************************************************************)
(* Bounds of the model.                                                    *)
(***************************************************************************)
\* the largest number of files held by the training uploader
MaxTrainFiles == 2

(***************************************************************************)
(* Generic helpers.                                                        *)
(***************************************************************************)
RECURSIVE Flatten(_)
\* the concatenation of a sequence of sequences (the nested for loops),
\* joined half by half so that a long page needs no deep recursion
Flatten(ss) ==
    IF ss = <<>> THEN <<>>
    ELSE IF Len(ss) = 1 THEN ss[1]
    ELSE LET half == Len(ss) \div 2
         IN  Flatten(SubSeq(ss, 1, half))
                 \o Flatten(SubSeq(ss, half + 1, Len(ss)))

(***************************************************************************)
(* collections.Counter: a bag; a key that is absent counts 0.              *)
(***************************************************************************)
Counter == EmptyBag

\* Counter + Counter, and Counter.update(Counter): counts add key by key
CounterAdd(a, b) == a (+) b

\* mutant of CounterTotal: len(c), the number of distinct keys
CounterLen(c) == Cardinality(BagToSet(c))

\* sum(c.values())
CounterTotal(c) == BagCardinality(c)

\* c[k] of a Counter: 0 for a missing key
CounterGet(c, k) == CopiesIn(k, c)

(***************************************************************************)
(* int_to_hex                                                              *)
(***************************************************************************)
HexDigit(n) ==
    <<"0", "1", "2", "3", "4", "5", "6", "7",
      "8", "9", "A", "B", "C", "D", "E", "F">>[n + 1]

\* format spec 02X of a value in 0..255
Hex02X(n) == HexDigit(n \div 16) \o HexDigit(n % 16)

int_to_hex(color_int) ==
    LET r == (color_int \div 65536) % 256
        g == (color_int \div 256) % 256
        b == color_int % 256
    IN  "#" \o Hex02X(r) \o Hex02X(g) \o Hex02X(b)

(***************************************************************************)
(* extract_formatting_combos                                               *)
(***************************************************************************)
\* the characters str.strip() removes: the 29 code points c for which
\* chr(c).isspace() holds (\t \n \x0b \x0c \r, \x1c-\x1f, space, \x85,
\* \xa0, U+1680, U+2000-U+200A, U+2028, U+2029, U+202F, U+205F, U+3000)
Whitespace ==
    {9, 10, 11, 12, 13, 28, 29, 30, 31, 32, 133, 160, 5760}
        \cup (8192..8202) \cup {8232, 8233, 8239, 8287, 12288}

RECURSIVE LStrip(_)
LStrip(t) ==
    IF t # <<>> /\ Head(t) \in Whitespace THEN LStrip(Tail(t)) ELSE t

RECURSIVE RStrip(_)
RStrip(t) ==
    IF t # <<>> /\ t[Len(t)] \in Whitespace
    THEN RStrip(SubSeq(t, 1, Len(t) - 1))
    ELSE t

\* str.strip() of a text held as the sequence of its code points
Strip(t) == RStrip(LStrip(t))

\* round(size, 1) of a size of size64/64 pt, in tenths of a point: the
\* size is an exact double, so Python rounds the exact value, ties to even
RoundSize(size64) ==
    LET q == (size64 * 10) \div 64
        r == (size64 * 10) % 64
    IN  IF r > 32 \/ (r = 32 /\ q % 2 = 1) THEN q + 1 ELSE q

\* str() of the float of `tenths` tenths, as the f-string prints it
FormatTenths(tenths) ==
    ToString(tenths \div 10) \o "." \o ToString(tenths % 10)

\* un_com of line 47
TextKey(span) ==
    FormatTenths(RoundSize(span.size)) \o "_" \o ToString(span.flags)
        \o "_" \o span.font \o "_" \o int_to_hex(span.color)
        \o "_" \o span.ascender \o "_" \o span.descender

\* the dict appended to detailed_chars for one span of page page_num
DetailedChar(span, page_num) ==
    [text   |-> Strip(span.text),
     page   |-> page_num,
     un_com |-> TextKey(span),
     color  |-> int_to_hex(span.color),
     bbox   |-> span.bbox]

\* the spans of one page in the order of the loops over blocks, lines and
\* spans; a block without "lines" (an image block) contributes none
PageSpans(page) ==
    LET BlockSpans(block) ==
            Flatten([j \in 1..Len(block.lines) |-> block.lines[j].spans])
    IN  Flatten([i \in 1..Len(page.blocks) |-> BlockSpans(page.blocks[i])])

\* the detailed_chars entries of the spans ss of page page_num: a span
\* whose stripped text is empty is skipped
PageChars(ss, page_num) ==
    LET HasText(span) == Strip(span.text) # <<>>
        kept == SelectSeq(ss, HasText)
    IN  [i \in 1..Len(kept) |-> DetailedChar(kept[i], page_num)]

RECURSIVE DocChars(_, _)
\* detailed_chars of pages[i..], page numbers counted from 0
DocChars(pages, i) ==
    IF i > Len(pages) THEN <<>>
    ELSE PageChars(PageSpans(pages[i]), i - 1) \o DocChars(pages, i + 1)

\* the Counter after combos[k] += 1 for every k of the key sequence ks
CountKeys(ks) ==
    [k \in {ks[i] : i \in 1..Len(ks)} |->
        Cardinality({i \in 1..Len(ks) : ks[i] = k})]

\* (combos, detailed_chars) of a document that fitz.open can open
extract_formatting_combos(doc) ==
    LET detailed_chars == DocChars(doc.pages, 1)
        un_coms == [i \in 1..Len(detailed_chars) |-> detailed_chars[i].un_com]
    IN  <<CountKeys(un_coms), detailed_chars>>

(***************************************************************************)
(* extract_image_combos                                                    *)
(***************************************************************************)
\* un_comb_img of line 76 for the dict doc.extract_image(xref) returns
ImageKey(base_image) ==
    "IMG_" \o ToString(base_image.width) \o "_" \o ToString(base_image.height)
        \o "_" \o base_image.ext \o "_" \o ToString(base_image.colorspace)
        \o "_0_0_" \o ToString(base_image.bpc)
        \o "_" \o ToString(base_image.image_len)

\* one count per entry of page.get_images(full=True), page after page
extract_image_combos(doc) ==
    LET xrefs == Flatten([i \in 1..Len(doc.pages) |-> doc.pages[i].images])
    IN  CountKeys([i \in 1..Len(xrefs) |-> ImageKey(doc.xrefs[xrefs[i]])])

(***************************************************************************)
(* The arithmetic of line 131, round((unexpected_used / total_used) * 100, *)
(* 2), in IEEE-754 binary64 with round-to-nearest-even.  A significand is  *)
(* a sequence of bits, least significant first, with no leading zero; a    *)
(* positive double is significand * 2^(-e).                                *)
(***************************************************************************)
\* bits of a double's significand
DoublePrecision == 53

\* the arithmetic works on words of up to 8 bits at a time, which keeps
\* every intermediate value a small integer: the bits taken in one step
\* when n are left
WordLen(n) == IF n < 8 THEN n ELSE 8

\* the n low bits of the natural x
WordBits(x, n) == [i \in 1..n |-> (x \div 2^(i - 1)) % 2]

\* the bits of a natural n < 2^30
NatBits(n) ==
    LET len == CHOOSE k \in 0..30 :
                   2^k > n /\ (k = 0 \/ 2^(k - 1) <= n)
    IN  WordBits(n, len)

RECURSIVE BitsNat(_)
\* the natural a bit sequence stands for
BitsNat(bits) ==
    IF bits = <<>> THEN 0
    ELSE IF Len(bits) = 1 THEN bits[1]
    ELSE LET half == Len(bits) \div 2
         IN  BitsNat(SubSeq(bits, 1, half))
                 + 2^half * BitsNat(SubSeq(bits, half + 1, Len(bits)))

\* bits + 1: the carry runs up to the lowest 0 bit
BitsInc(bits) ==
    LET zeros == {i \in 1..Len(bits) : bits[i] = 0}
    IN  IF zeros = {}
        THEN [i \in 1..(Len(bits) + 1) |-> IF i = Len(bits) + 1 THEN 1 ELSE 0]
        ELSE LET k == CHOOSE i \in zeros : \A j \in zeros : i <= j
             IN  [i \in 1..Len(bits) |->
                     IF i < k THEN 0 ELSE IF i = k THEN 1 ELSE bits[i]]

RECURSIVE BitsMul(_, _, _)
\* bits * c + carry, for a small natural c, word by word
BitsMul(bits, c, carry) ==
    IF bits = <<>> THEN NatBits(carry)
    ELSE LET n == WordLen(Len(bits))
             v == BitsNat(SubSeq(bits, 1, n)) * c + carry
         IN  WordBits(v % 2^n, n)
                 \o BitsMul(SubSeq(bits, n + 1, Len(bits)), c, v \div 2^n)

\* bits / 2^s rounded to the nearest integer, ties to even
BitsRoundShift(bits, s) ==
    IF s <= 0 THEN bits
    ELSE IF s > Len(bits) THEN <<>>
    ELSE LET kept   == SubSeq(bits, s + 1, Len(bits))
             half   == bits[s] = 1
             sticky == \E i \in 1..(s - 1) : bits[i] = 1
             odd    == kept # <<>> /\ kept[1] = 1
         IN  IF half /\ (sticky \/ odd) THEN BitsInc(kept) ELSE kept

RECURSIVE DivBits(_, _, _, _)
\* the quotient of (acc + r/t) * 2^e carried on, word by word, until it
\* has DoublePrecision significant bits: the bits, the remainder left and
\* the number of binary places (0 <= r < t < 2^23; acc has no leading
\* zero, and r > 0 when acc is empty)
DivBits(r, t, acc, e) ==
    IF Len(acc) >= DoublePrecision THEN [m |-> acc, rem |-> r, e |-> e]
    ELSE LET n    == WordLen(DoublePrecision - Len(acc))
             word == (r * 2^n) \div t
             rem  == (r * 2^n) % t
         IN  IF acc = <<>>
             THEN DivBits(rem, t, NatBits(word), e + n)
             ELSE DivBits(rem, t, WordBits(word, n) \o acc, e + n)

\* the double u / t for naturals u > 0, t > 0: [m, e] with value m * 2^(-e)
DoubleDiv(u, t) ==
    LET q  == DivBits(u % t, t, NatBits(u \div t), 0)
        up == 2 * q.rem > t \/ (2 * q.rem = t /\ q.m[1] = 1)
    IN  [m |-> IF up THEN BitsInc(q.m) ELSE q.m, e |-> q.e]

\* the double x * c for a small natural c
DoubleMul(x, c) ==
    LET p == BitsMul(x.m, c, 0)
        s == Len(p) - DoublePrecision
    IN  IF s <= 0 THEN [m |-> p, e |-> x.e]
        ELSE [m |-> BitsRoundShift(p, s), e |-> x.e - s]

\* round(x, 2) of a double x >= 0, as a number of hundredths: Python rounds
\* the exact binary value to the nearest hundredth, ties to even
DoubleRound2(x) == BitsNat(BitsRoundShift(BitsMul(x.m, 100, 0), x.e))

\* round((unexpected_used / total_used) * 100, 2) if total_used else 0,
\* in hundredths of a percent
FraudScore(unexpected_used, total_used) ==
    IF total_used = 0 \/ unexpected_used = 0 THEN 0
    ELSE DoubleRound2(DoubleMul(DoubleDiv(unexpected_used, total_used), 100))

(***************************************************************************)
(* The documents a reviewer can upload: what fitz reports for each.        *)
(* A document is [readable, pages, xrefs]; a page is [blocks, images], the *)
(* blocks of get_text("dict") and the xrefs of get_images(full=True); a    *)
(* block is [lines] (an image block has none); a line is [spans].          *)
(***************************************************************************)
\* a run of 12 pt Arial in black
Arial12Black(text, bbox) ==
    [text |-> text, font |-> "ArialMT", size |-> 768, color |-> 0,
     flags |-> 0, ascender |-> "0.905", descender |-> "-0.212",
     bbox |-> bbox]

\* a run of 14 pt Arial in red
Arial14Red(text, bbox) ==
    [text |-> text, font |-> "ArialMT", size |-> 896, color |-> 16711680,
     flags |-> 0, ascender |-> "0.905", descender |-> "-0.212",
     bbox |-> bbox]

\* a page of one block of one line of spans, without images
TextPage(spans) ==
    [blocks |-> <<[lines |-> <<[spans |-> spans]>>]>>, images |-> <<>>]

\* a letter in 12 pt Arial black: "Dear", a run of a space and a no-break
\* space, and "Sir" between a form feed and a narrow no-break space and
\* a line feed
GenuineDoc ==
    [readable |-> TRUE,
     pages |-> <<TextPage(<<Arial12Black(<<68, 101, 97, 114>>, <<72, 72, 100, 84>>),
                            Arial12Black(<<32, 160>>, <<100, 72, 106, 84>>),
                            Arial12Black(<<12, 83, 105, 114, 8239, 10>>, <<106, 72, 130, 84>>)>>)>>,
     xrefs |-> <<>>]

\* ten runs of 12 pt Arial black and, on a second page, one run of 14 pt
\* Arial red
ScenarioDoc ==
    [readable |-> TRUE,
     pages |-> <<TextPage([i \in 1..10 |->
                     Arial12Black(<<111, 107>>, <<72, 60 + 12 * i, 90, 72 + 12 * i>>)]),
                 TextPage(<<Arial14Red(<<80, 65, 73, 68>>, <<72, 72, 120, 86>>)>>)>>,
     xrefs |-> <<>>]

\* one embedded logo drawn twice on the page, an image block, 12 pt Arial
\* black text whose size and colour differ from GenuineDoc's below what
\* the signature keeps (12.03125 pt, a bit set above bit 23), and a run of
\* 14 pt Arial red
LetterheadDoc ==
    [readable |-> TRUE,
     pages |-> <<[blocks |-> <<[lines |-> <<>>],
                               [lines |-> <<[spans |-> <<
                                   [Arial12Black(<<82, 101, 58>>, <<72, 150, 95, 162>>)
                                       EXCEPT !.size = 770, !.color = 16777216],
                                   Arial14Red(<<68, 85, 69>>, <<100, 150, 130, 164>>)>>]>>]>>,
                  images |-> <<7, 7>>]>>,
     xrefs |-> (7 :> [width |-> 64, height |-> 32, ext |-> "png",
                      colorspace |-> 3, bpc |-> 8, image_len |-> 517])]

\* a page holding nothing but whitespace-only runs: a space, a form feed,
\* and a no-break space, a vertical tab and a hair space
BlankDoc ==
    [readable |-> TRUE,
     pages |-> <<TextPage(<<Arial12Black(<<32>>, <<72, 72, 75, 84>>),
                            Arial12Black(<<12>>, <<72, 90, 75, 102>>),
                            Arial12Black(<<160, 11, 8202>>, <<72, 110, 75, 122>>)>>)>>,
     xrefs |-> <<>>]

\* a file fitz.open raises on
CorruptDoc ==
    [readable |-> FALSE, pages |-> <<>>, xrefs |-> <<>>]

\* a long statement: 137 runs of 12 pt Arial black, then a page of 23 runs
\* of 14 pt Arial red
BulkDoc ==
    [readable |-> TRUE,
     pages |-> <<TextPage([i \in 1..137 |->
                     Arial12Black(<<120>>, <<72, i, 80, i + 1>>)]),
                 TextPage([i \in 1..23 |->
                     Arial14Red(<<121>>, <<72, i, 80, i + 1>>)])>>,
     xrefs |-> <<>>]

Library ==
    [genuine |-> GenuineDoc, scenario |-> ScenarioDoc,
     letterhead |-> LetterheadDoc, blank |-> BlankDoc,
     corrupt |-> CorruptDoc, bulk |-> BulkDoc]

\* the uploaded files, by name
DocIds == DOMAIN Library

\* the value of an empty single-file uploader
NoFile == "None"

\* what the two extractors return for each uploaded file that opens: the
\* pair of extract_formatting_combos and the Counter of
\* extract_image_combos
Extracted ==
    [file \in DocIds |->
        [text  |-> extract_formatting_combos(Library[file]),
         image |-> extract_image_combos(Library[file])]]

(***************************************************************************)
(* What a script run displays.                                             *)
(***************************************************************************)
\* no button was pressed in this run
MsgNone == "none"
\* the Train Model handler is in its loop
MsgTraining == "training"
MsgUploadTrain == "Please upload at least one PDF to train."
MsgTrained == "Model trained!"
MsgTrainFirst == "Please train the model first."
MsgUploadTest == "Please upload a test PDF."
MsgSuspicious == "Suspicious Content Found!!"
MsgClean == "No unexpected formatting found in test document."
\* fitz.open raised in the Train Model handler; the run ends there
MsgTrainException == "Train Model: uncaught exception from fitz.open"
\* fitz.open raised in the Validate Test Document handler
MsgTestException == "Validate Test Document: uncaught exception from fitz.open"

ValidateOutcomes ==
    {MsgTrainFirst, MsgUploadTest, MsgSuspicious, MsgClean, MsgTestException}

\* the values of a run that scored nothing
NoResult ==
    [computed |-> FALSE, unexpected |-> {}, missing |-> {},
     total_used |-> 0, unexpected_used |-> 0, fraud_score |-> 0,
     suspicious_chars |-> <<>>, annotated |-> FALSE]

(***************************************************************************)
(* The session.                                                            *)
(***************************************************************************)
VARIABLES
    trained_un_combos,  \* st.session_state.trained_un_combos
    train_files,        \* the training uploader: a sequence of DocIds
    test_file,          \* the test uploader: a DocId or NoFile
    pc,                 \* "idle", or "training" inside the loop of line 91
    train_idx,          \* the file the loop is at (kept when it raised)
    outcome,            \* what the last script run displayed
    result,             \* what the Validate handler computed in that run
    old_baseline,       \* history: the baseline when the Train Model
                        \* handler of this run began
    trained_on_files    \* history: the training uploader still holds the
                        \* files of the last training call that completed

vars == <<trained_un_combos, train_files, test_file, pc, train_idx, outcome,
          result, old_baseline, trained_on_files>>

(***************************************************************************)
(* Step 1: the Train Model handler, lines 86-100.                          *)
(***************************************************************************)
\* mutant of TrainBegin: line 90 is missing, the loop merges into the
\* baseline of the earlier calls
TrainBeginAppend(baseline, files) ==
    IF files = <<>>
    THEN [trained_un_combos |-> baseline, outcome |-> MsgUploadTrain,
          pc |-> "idle"]
    ELSE [trained_un_combos |-> baseline, outcome |-> MsgTraining,
          pc |-> "training"]

\* mutant of TrainBegin: line 90 runs before the test of line 87
TrainBeginResetFirst(baseline, files) ==
    IF files = <<>>
    THEN [trained_un_combos |-> Counter, outcome |-> MsgUploadTrain,
          pc |-> "idle"]
    ELSE [trained_un_combos |-> Counter, outcome |-> MsgTraining,
          pc |-> "training"]

\* lines 87-90: the warning for an empty uploader, otherwise the baseline
\* is replaced by an empty Counter before the loop
TrainBegin(baseline, files) ==
    IF files = <<>>
    THEN [trained_un_combos |-> baseline, outcome |-> MsgUploadTrain,
          pc |-> "idle"]
    ELSE [trained_un_combos |-> Counter, outcome |-> MsgTraining,
          pc |-> "training"]

\* mutant of TrainMerge: the image combos are left out of line 96
TrainMergeTextOnly(baseline, file) ==
    CounterAdd(baseline, Extracted[file].text[1])

\* lines 94-97, one pass of the loop over a file fitz can open
TrainMerge(baseline, file) ==
    LET text_combos     == Extracted[file].text[1]
        image_combos    == Extracted[file].image
        combined_combos == CounterAdd(text_combos, image_combos)
    IN  CounterAdd(baseline, combined_combos)

(***************************************************************************)
(* Step 2: the Validate Test Document handler, lines 110-160.              *)
(***************************************************************************)
\* mutant of SuspiciousChars: the filter of line 137 is missing
SuspiciousCharsUnfiltered(detailed_chars, unexpected) == detailed_chars

\* c["un_com"] in unexpected, kept in the order of detailed_chars
SuspiciousChars(detailed_chars, unexpected) ==
    LET IsSuspicious(c) == c.un_com \in unexpected
    IN  SelectSeq(detailed_chars, IsSuspicious)

\* sum(test_combos[c] for c in unexpected)
RECURSIVE SumCounts(_, _)
SumCounts(c, keys) ==
    IF keys = {} THEN 0
    ELSE LET k == CHOOSE x \in keys : TRUE
         IN  CounterGet(c, k) + SumCounts(c, keys \ {k})

\* lines 119-160 for a test document fitz can open
Score(baseline, file) ==
    LET extracted        == Extracted[file].text
        test_text_combos == extracted[1]
        detailed_chars   == extracted[2]
        test_image_combos == Extracted[file].image
        test_combos      == CounterAdd(test_text_combos, test_image_combos)
        trained_set      == BagToSet(baseline)
        test_set         == BagToSet(test_combos)
        unexpected       == test_set \ trained_set
        missing          == trained_set \ test_set
        total_used       == CounterTotal(test_combos)
        unexpected_used  == SumCounts(test_combos, unexpected)
        fraud_score      == FraudScore(unexpected_used, total_used)
        suspicious_chars == SuspiciousChars(detailed_chars, unexpected)
    IN  [computed |-> TRUE, unexpected |-> unexpected, missing |-> missing,
         total_used |-> total_used, unexpected_used |-> unexpected_used,
         fraud_score |-> fraud_score, suspicious_chars |-> suspicious_chars,
         annotated |-> suspicious_chars # <<>>]

\* mutant of ScoreRun: the run merges the candidate's combos into the
\* session baseline
ScoreRunLearns(baseline, file) ==
    LET r == Score(baseline, file)
    IN  [trained_un_combos |->
             CounterAdd(baseline, CounterAdd(Extracted[file].text[1],
                                             Extracted[file].image)),
         outcome |-> IF r.suspicious_chars # <<>> THEN MsgSuspicious
                     ELSE MsgClean,
         result |-> r]

\* lines 116-160: the branch that scores a test file fitz can open
ScoreRun(baseline, file) ==
    LET r == Score(baseline, file)
    IN  [trained_un_combos |-> baseline,
         outcome |-> IF r.suspicious_chars # <<>> THEN MsgSuspicious
                     ELSE MsgClean,
         result |-> r]

\* mutant of BaselineMissing: the test is "is None", never true of a Counter
BaselineNeverMissing(baseline) == FALSE

\* not st.session_state.trained_un_combos (line 111)
BaselineMissing(baseline) == baseline = Counter

\* lines 110-160: what the handler leaves in the session and displays
ValidateHandler(baseline, file) ==
    IF BaselineMissing(baseline)
    THEN [trained_un_combos |-> baseline, outcome |-> MsgTrainFirst,
          result |-> NoResult]
    ELSE IF file = NoFile
    THEN [trained_un_combos |-> baseline, outcome |-> MsgUploadTest,
          result |-> NoResult]
    ELSE IF ~Library[file].readable
    THEN [trained_un_combos |-> baseline, outcome |-> MsgTestException,
          result |-> NoResult]
    ELSE ScoreRun(baseline, file)

(***************************************************************************)
(* Actions.  A change of a widget, a press of a button or a plain rerun    *)
(* starts a script run; a run that is in the training loop is stopped by   *)
(* it at the access to st.session_state of line 97, with the session state *)
(* as it is.                                                               *)
(***************************************************************************)
Init ==
    /\ trained_un_combos = Counter
    /\ train_files = <<>>
    /\ test_file = NoFile
    /\ pc = "idle"
    /\ train_idx = 0
    /\ outcome = MsgNone
    /\ result = NoResult
    /\ old_baseline = Counter
    /\ trained_on_files = FALSE

\* the script run that follows a change of the training uploader to files
UploadTrain(files) ==
    /\ train_files' = files
    /\ pc' = "idle"
    /\ train_idx' = 0
    /\ outcome' = MsgNone
    /\ result' = NoResult
    /\ old_baseline' = Counter
    /\ trained_on_files' = FALSE
    /\ UNCHANGED <<trained_un_combos, test_file>>

\* the reviewer changes or removes the file of the test uploader
UploadTest(file) ==
    /\ file # test_file
    /\ test_file' = file
    /\ pc' = "idle"
    /\ train_idx' = 0
    /\ outcome' = MsgNone
    /\ result' = NoResult
    /\ old_baseline' = Counter
    /\ UNCHANGED <<trained_un_combos, train_files, trained_on_files>>

\* a script run in which no widget value changed and neither button is
\* pressed: the reviewer clicks the download button of line 158, uploads an
\* identical copy of a file, or asks for a rerun; a run still going is
\* stopped, nothing is displayed or computed, and the session state stays
Rerun ==
    /\ pc' = "idle"
    /\ train_idx' = 0
    /\ outcome' = MsgNone
    /\ result' = NoResult
    /\ old_baseline' = Counter
    /\ UNCHANGED <<trained_un_combos, train_files, test_file, trained_on_files>>

\* "Train Model" is pressed: lines 86-90
ClickTrain ==
    LET h == TrainBegin(trained_un_combos, train_files)
    IN  /\ trained_un_combos' = h.trained_un_combos
        /\ outcome' = h.outcome
        /\ pc' = h.pc
        /\ train_idx' = IF h.pc = "training" THEN 1 ELSE 0
        /\ result' = NoResult
        /\ old_baseline' = trained_un_combos
        /\ trained_on_files' = FALSE
        /\ UNCHANGED <<train_files, test_file>>

\* one pass of the loop of lines 91-97, and lines 99-100 after the last
TrainFile ==
    /\ pc = "training"
    /\ LET doc == Library[train_files[train_idx]]
       IN  IF ~doc.readable
           THEN /\ outcome' = MsgTrainException
                /\ pc' = "idle"
                /\ UNCHANGED <<trained_un_combos, train_idx, trained_on_files>>
           ELSE /\ trained_un_combos' = TrainMerge(trained_un_combos, train_files[train_idx])
                /\ IF train_idx = Len(train_files)
                   THEN /\ outcome' = MsgTrained
                        /\ pc' = "idle"
                        /\ train_idx' = 0
                        /\ trained_on_files' = TRUE
                   ELSE /\ train_idx' = train_idx + 1
                        /\ UNCHANGED <<outcome, pc, trained_on_files>>
    /\ UNCHANGED <<train_files, test_file, result, old_baseline>>

\* "Validate Test Document" is pressed: lines 110-160
ClickValidate ==
    LET h == ValidateHandler(trained_un_combos, test_file)
    IN  /\ trained_un_combos' = h.trained_un_combos
        /\ outcome' = h.outcome
        /\ result' = h.result
        /\ pc' = "idle"
        /\ train_idx' = 0
        /\ old_baseline' = Counter
        /\ UNCHANGED <<train_files, test_file, trained_on_files>>

\* the reviewer adds a file to the training uploader
AddTrainFile(file) ==
    /\ Len(train_files) < MaxTrainFiles
    /\ UploadTrain(Append(train_files, file))

\* the reviewer removes the i-th file of the training uploader
RemoveTrainFile(i) ==
    UploadTrain(SubSeq(train_files, 1, i - 1)
                    \o SubSeq(train_files, i + 1, Len(train_files)))

Next ==
    \/ \E file \in DocIds : AddTrainFile(file)
    \/ \E i \in 1..Len(train_files) : RemoveTrainFile(i)
    \/ \E file \in DocIds \cup {NoFile} : UploadTest(file)
    \/ Rerun
    \/ ClickTrain
    \/ TrainFile
    \/ ClickValidate

Spec == Init /\ [][Next]_vars

(***************************************************************************)
(* The vocabulary of the properties, stated from the documents rather than *)
(* from what the handlers computed.                                        *)
(***************************************************************************)
\* how often signature k occurs in a file: text runs plus image occurrences
Occurrences(file, k) ==
    CopiesIn(k, Extracted[file].text[1]) + CopiesIn(k, Extracted[file].image)

\* the signatures of a file
Signatures(file) ==
    BagToSet(Extracted[file].text[1]) \cup BagToSet(Extracted[file].image)

RECURSIVE SumOver(_, _)
\* the sum of F over a finite set
SumOver(F(_), S) ==
    IF S = {} THEN 0
    ELSE LET x == CHOOSE y \in S : TRUE
         IN  F(x) + SumOver(F, S \ {x})

\* the element-wise sum of the signature counts of the files of a list
SignatureSum(files) ==
    LET keys == UNION {Signatures(files[i]) : i \in 1..Len(files)}
        Count(k) ==
            LET At(i) == Occurrences(files[i], k)
            IN  SumOver(At, 1..Len(files))
    IN  [k \in keys |-> Count(k)]

AllReadable(files) == \A i \in 1..Len(files) : Library[files[i]].readable

\* the candidate's signatures that the baseline lacks
Unexpected(file, baseline) == Signatures(file) \ BagToSet(baseline)

\* total_occurrences and unexpected_occurrences of a candidate
TotalOccurrences(file) ==
    LET Of(k) == Occurrences(file, k)
    IN  SumOver(Of, Signatures(file))

UnexpectedOccurrences(file, baseline) ==
    LET Of(k) == Occurrences(file, k)
    IN  SumOver(Of, Unexpected(file, baseline))

\* n / d rounded to the nearest integer, ties to even, in exact arithmetic
RoundHalfEven(n, d) ==
    LET q == n \div d
        r == n % d
    IN  IF 2 * r > d \/ (2 * r = d /\ q % 2 = 1) THEN q + 1 ELSE q

\* 100 * u / t rounded to 2 decimals, in hundredths of a percent
ExactPercent(u, t) == IF t = 0 THEN 0 ELSE RoundHalfEven(10000 * u, t)

\* the last script run was a Validate run that got as far as scoring
Scored == outcome \in {MsgSuspicious, MsgClean}

(***************************************************************************)
(* C1.  Untrained rejection: a Validate request made while the baseline is *)
(* empty is answered "Please train the model first." and computes nothing  *)
(* (no unexpected set, no score, no suspicious spans), whatever the test   *)
(* uploader holds, a file or none.                                         *)
(***************************************************************************)
C1_UntrainedRejection ==
    (outcome \in ValidateOutcomes /\ trained_un_combos = Counter)
        => (outcome = MsgTrainFirst /\ result = NoResult)

\* a Validate request with a readable, non-blank candidate was rejected
C1_Witness ==
    /\ outcome = MsgTrainFirst
    /\ test_file = "scenario"
    /\ trained_un_combos = Counter

(***************************************************************************)
(* C2.  Training is replace, not append: when a training call on a         *)
(* non-empty list D has completed, the baseline is the element-wise sum of *)
(* the signature counts of the documents of D and of nothing else,         *)
(* whatever the baseline was before the call.                              *)
(***************************************************************************)
C2_TrainingReplaces ==
    trained_on_files =>
        /\ train_files # <<>>
        /\ trained_un_combos = SignatureSum(train_files)

\* a training call has just replaced a non-empty baseline that differs
\* from the one it produced
C2_Witness ==
    /\ outcome = MsgTrained
    /\ trained_on_files
    /\ old_baseline # Counter
    /\ BagToSet(old_baseline) \ BagToSet(trained_un_combos) # {}

(***************************************************************************)
(* C3, as stated.  Training on zero documents yields an empty baseline,    *)
(* also when a non-empty baseline was trained before.                      *)
(***************************************************************************)
C3_ZeroDocumentsEmptyBaseline ==
    outcome = MsgUploadTrain => trained_un_combos = Counter

(***************************************************************************)
(* C3, amended.  A Train request with no uploaded document is answered     *)
(* "Please upload at least one PDF to train." and leaves the baseline as   *)
(* it was; and a baseline that is empty after a completed training call is *)
(* answered by Validate exactly as an untrained one, "Please train the     *)
(* model first.".                                                          *)
(***************************************************************************)
C3_ZeroDocumentsRejected ==
    /\ [][outcome' = MsgUploadTrain =>
            /\ train_files = <<>>
            /\ trained_un_combos' = trained_un_combos
            /\ result' = NoResult]_vars
    /\ []((trained_on_files /\ trained_un_combos = Counter
              /\ outcome \in ValidateOutcomes) => outcome = MsgTrainFirst)

\* a Train request without documents was rejected and a trained baseline
\* survived it
C3_Witness ==
    /\ outcome = MsgUploadTrain
    /\ train_files = <<>>
    /\ trained_un_combos # Counter

(***************************************************************************)
(* C4.  A training call that meets a document it cannot open leaves no     *)
(* partial baseline: after the call has aborted at its k-th document, the  *)
(* baseline is not the sum of the signatures of documents 1..k-1 (unless   *)
(* that is what the baseline was before the call).                         *)
(***************************************************************************)
C4_NoPartialBaseline ==
    outcome = MsgTrainException =>
        \/ trained_un_combos = old_baseline
        \/ trained_un_combos
               # SignatureSum(SubSeq(train_files, 1, train_idx - 1))

(***************************************************************************)
(* C5.  Replace-then-publish: while a training call runs, and after it     *)
(* ended in any way, the baseline a Validate request would read is the     *)
(* baseline from before the call or the complete baseline of the call's    *)
(* documents, never the emptied baseline nor the sum of a prefix.          *)
(***************************************************************************)
C5_ReplaceThenPublish ==
    outcome \in {MsgTraining, MsgTrained, MsgTrainException} =>
        \/ trained_un_combos = old_baseline
        \/ /\ AllReadable(train_files)
           /\ trained_un_combos = SignatureSum(train_files)

(***************************************************************************)
(* C6.  Scoring is read-only: every Validate run, whether it is rejected,  *)
(* finds suspicious spans or finds none, leaves the baseline, its keys and *)
(* its counts, as it was.                                                  *)
(***************************************************************************)
C6_ScoringReadOnly ==
    [][outcome' \in ValidateOutcomes =>
          trained_un_combos' = trained_un_combos]_vars

\* a Validate run that found suspicious spans against a trained baseline
C6_Witness ==
    /\ outcome = MsgSuspicious
    /\ trained_un_combos # Counter
    /\ result.unexpected # {}

(***************************************************************************)
(* C7.  The anomaly score is occurrence-weighted: a scoring run's score is *)
(* 0 when the candidate has no occurrence and otherwise                    *)
(* 100 * unexpected_occurrences / total_occurrences rounded to 2 decimals. *)
(***************************************************************************)
C7_OccurrenceWeightedScore ==
    Scored =>
        /\ result.unexpected = Unexpected(test_file, trained_un_combos)
        /\ result.total_used = TotalOccurrences(test_file)
        /\ result.unexpected_used
               = UnexpectedOccurrences(test_file, trained_un_combos)
        /\ result.fraud_score
               = ExactPercent(UnexpectedOccurrences(test_file, trained_un_combos),
                              TotalOccurrences(test_file))

(***************************************************************************)
(* C7, off the ties.  Whenever 100 * unexpected_occurrences /              *)
(* total_occurrences is not exactly halfway between two hundredths, the    *)
(* score of a scoring run is that quotient rounded to 2 decimals.          *)
(***************************************************************************)
C7_ScoreOffTies ==
    Scored =>
        LET u == UnexpectedOccurrences(test_file, trained_un_combos)
            t == TotalOccurrences(test_file)
        IN  (t = 0 \/ (2 * ((10000 * u) % t)) # t)
                => result.fraud_score = ExactPercent(u, t)

\* the scenario of the specification: 1 unexpected occurrence of 11, 9.09
C7_ScenarioReached ==
    /\ Scored
    /\ test_file = "scenario"
    /\ result.unexpected_used = 1
    /\ result.total_used = 11
    /\ result.fraud_score = 909
    /\ Len(result.suspicious_chars) = 1

(***************************************************************************)
(* C8, as stated.  Zero case: for every candidate d, training on a list    *)
(* holding only d and then scoring d yields a score of 0 and no suspicious *)
(* span.                                                                   *)
(***************************************************************************)
C8_ZeroCaseEveryDocument ==
    (trained_on_files /\ train_files = <<test_file>>
         /\ outcome \in ValidateOutcomes)
        => (result.computed /\ result.fraud_score = 0
                /\ result.suspicious_chars = <<>>)

(***************************************************************************)
(* C8, amended.  Zero case: for every candidate d that holds at least one  *)
(* non-blank text run or image, training on a list holding only d and then *)
(* scoring d yields a score of 0 and no suspicious span.                   *)
(***************************************************************************)
C8_ZeroCaseWithContent ==
    (trained_on_files /\ train_files = <<test_file>>
         /\ outcome \in ValidateOutcomes /\ Signatures(test_file) # {})
        => (result.computed /\ result.fraud_score = 0
                /\ result.suspicious_chars = <<>> /\ outcome = MsgClean)

\* a document with text and images was scored against the baseline
\* trained on it alone
C8_Witness ==
    /\ trained_on_files
    /\ train_files = <<"letterhead">>
    /\ test_file = "letterhead"
    /\ outcome = MsgClean

(***************************************************************************)
(* C9.  Score bounds: every score computed by a scoring run (its baseline  *)
(* is then non-empty) lies between 0 and 100 percent.                      *)
(***************************************************************************)
C9_ScoreBounds ==
    result.computed =>
        /\ trained_un_combos # Counter
        /\ 0 <= result.fraud_score
        /\ result.fraud_score <= 10000

\* a score strictly between the bounds, and of more than one unexpected
\* occurrence
C9_Witness ==
    /\ result.computed
    /\ result.unexpected_used > 1
    /\ result.fraud_score > 0
    /\ result.fraud_score < 10000

(***************************************************************************)
(* C10.  suspicious_spans is the subsequence, in extraction order, of the  *)
(* candidate's content spans whose signature is unexpected: its length is  *)
(* the sum of the candidate's counts of the unexpected text signatures,    *)
(* unexpected image signatures count in unexpected_occurrences but give no *)
(* span, and the annotated output exists if and only if at least one text  *)
(* signature is unexpected.                                                *)
(***************************************************************************)
C10_SuspiciousSpans ==
    Scored =>
        LET chars      == Extracted[test_file].text[2]
            text       == Extracted[test_file].text[1]
            image      == Extracted[test_file].image
            unexpected == Unexpected(test_file, trained_un_combos)
            IsUnexpected(c) == c.un_com \in unexpected
            TextCount(k)  == CopiesIn(k, text)
            ImageCount(k) == CopiesIn(k, image)
            sus        == result.suspicious_chars
        IN  /\ sus = SelectSeq(chars, IsUnexpected)
            /\ Len(sus) = SumOver(TextCount, unexpected \cap BagToSet(text))
            /\ \A i \in 1..Len(sus) : sus[i].un_com \notin BagToSet(image)
            /\ result.unexpected_used
                   = Len(sus) + SumOver(ImageCount, unexpected \cap BagToSet(image))
            /\ result.annotated <=> (unexpected \cap BagToSet(text) # {})
            /\ (outcome = MsgSuspicious) <=> result.annotated

\* a candidate with an unexpected image signature and an unexpected text
\* signature: the spans hold the text run only
C10_Witness ==
    /\ Scored
    /\ result.unexpected \cap BagToSet(Extracted[test_file].image) # {}
    /\ result.unexpected \cap BagToSet(Extracted[test_file].text[1]) # {}
    /\ Len(result.suspicious_chars) < result.unexpected_used

====
